---- MODULE Spec2Model ----
(***************************************************************************)
(* Model of multissl.py: builders for OpenSSL / LibreSSL versions, their   *)
(* on-disk layout, install(), the tar unpacking and the __main__ driver.   *)
(* Python strings are sequences of one-character strings, so that          *)
(* startswith, lstrip, `in` and os.path.join are computed as Python does.  *)
(***************************************************************************)
EXTENDS Integers, Sequences, FiniteSets, TLC

(* ------------------------------------------------------------------ *)
(* Bounds of the model                                                 *)
(* ------------------------------------------------------------------ *)
\* how many entries of OPENSSL_VERSIONS / LIBRESSL_VERSIONS a run declares
NumOpenSSL == 2
NumLibreSSL == 1
\* how many times the operator invokes the script on the same disk
MaxRuns == 3
\* longest version string of the layout probe
MaxVerLen == 2

(* ------------------------------------------------------------------ *)
(* Python string operations                                            *)
(* ------------------------------------------------------------------ *)
\* str.startswith(prefix)
StartsWith(s, p) == Len(s) >= Len(p) /\ SubSeq(s, 1, Len(p)) = p

\* `sub in s` for strings
Contains(s, sub) ==
    \E i \in 0..(Len(s) - Len(sub)) : SubSeq(s, i + 1, i + Len(sub)) = sub

\* s[n:]
DropFirst(s, n) == IF n >= Len(s) THEN <<>> ELSE SubSeq(s, n + 1, Len(s))

\* s.lstrip('/')
RECURSIVE LStripSlash(_)
LStripSlash(s) ==
    IF s # <<>> /\ Head(s) = "/" THEN LStripSlash(Tail(s)) ELSE s

\* s.split('/'): the components between separators (empty ones included)
RECURSIVE SplitSlash(_, _)
SplitSlash(s, cur) ==
    IF s = <<>> THEN <<cur>>
    ELSE IF Head(s) = "/" THEN <<cur>> \o SplitSlash(Tail(s), <<>>)
    ELSE SplitSlash(Tail(s), Append(cur, Head(s)))

\* "/".join(comps)
RECURSIVE JoinSlash(_)
JoinSlash(comps) ==
    IF comps = <<>> THEN <<>>
    ELSE IF Len(comps) = 1 THEN Head(comps)
    ELSE Head(comps) \o <<"/">> \o JoinSlash(Tail(comps))

\* os.path.join(a, b)
PathJoin(a, b) ==
    IF b # <<>> /\ Head(b) = "/" THEN b
    ELSE IF a = <<>> \/ a[Len(a)] = "/" THEN a \o b
    ELSE a \o <<"/">> \o b

\* The components of an absolute path after "", "." and ".." are resolved,
\* as the kernel (and os.path.normpath) resolves them; ".." at the root stays
\* at the root.
RECURSIVE Resolve(_, _)
Resolve(comps, acc) ==
    IF comps = <<>> THEN acc
    ELSE LET c == Head(comps) IN
         IF c = <<>> \/ c = <<".">> THEN Resolve(Tail(comps), acc)
         ELSE IF c = <<".", ".">>
              THEN Resolve(Tail(comps),
                           IF acc = <<>> THEN acc
                           ELSE SubSeq(acc, 1, Len(acc) - 1))
         ELSE Resolve(Tail(comps), Append(acc, c))

\* os.path.abspath / normpath of an absolute path
Normpath(p) == <<"/">> \o JoinSlash(Resolve(SplitSlash(p, <<>>), <<>>))

\* os.path.dirname(p)
Dirname(p) ==
    LET comps == Resolve(SplitSlash(p, <<>>), <<>>)
    IN  <<"/">> \o JoinSlash(SubSeq(comps, 1, Len(comps) - 1))

\* p is dir itself or lies below it
Under(p, dir) == p = dir \/ StartsWith(p, dir \o <<"/">>)
StrictlyUnder(p, dir) == p # dir /\ StartsWith(p, dir \o <<"/">>)

\* template.format(version) for a template with one "{}"
Format(template, version) == template.pre \o version \o template.post

(* ------------------------------------------------------------------ *)
(* Module constants                                                    *)
(* ------------------------------------------------------------------ *)
OPENSSL_VERSIONS == <<
    <<"0", ".", "9", ".", "8", "z", "c">>,
    <<"0", ".", "9", ".", "8", "z", "h">>,
    <<"1", ".", "0", ".", "1", "u">>,
    <<"1", ".", "0", ".", "2">>,
    <<"1", ".", "0", ".", "2", "k">>,
    <<"1", ".", "1", ".", "0", "e">> >>

LIBRESSL_VERSIONS == <<
    <<"2", ".", "3", ".", "1", "0">>,
    <<"2", ".", "4", ".", "5">>,
    <<"2", ".", "5", ".", "3">> >>

\* the working directory the script is started in (Python's build directory)
HERE == <<"/", "p", "y">>
MULTISSL_DIR ==
    Normpath(PathJoin(PathJoin(HERE, <<".", ".">>),
                      <<"m", "u", "l", "t", "i", "s", "s", "l">>))

\* AbstractBuilder.srcdir
srcdir == PathJoin(MULTISSL_DIR, <<"s", "r", "c">>)

TarGz == <<".", "t", "a", "r", ".", "g", "z">>

BuildOpenSSL ==
    [library |-> <<"O", "p", "e", "n", "S", "S", "L">>,
     src_template |-> [pre |-> <<"o", "p", "e", "n", "s", "s", "l", "-">>,
                       post |-> TarGz],
     build_template |-> [pre |-> <<"o", "p", "e", "n", "s", "s", "l", "-">>,
                         post |-> <<>>],
     default_destdir |->
         PathJoin(MULTISSL_DIR, <<"o", "p", "e", "n", "s", "s", "l">>)]

BuildLibreSSL ==
    [library |-> <<"L", "i", "b", "r", "e", "S", "S", "L">>,
     src_template |-> [pre |-> <<"l", "i", "b", "r", "e", "s", "s", "l", "-">>,
                       post |-> TarGz],
     build_template |-> [pre |-> <<"l", "i", "b", "r", "e", "s", "s", "l", "-">>,
                         post |-> <<>>],
     default_destdir |->
         PathJoin(MULTISSL_DIR, <<"l", "i", "b", "r", "e", "s", "s", "l">>)]

\* destdir=None
None == <<"None">>

(* ------------------------------------------------------------------ *)
(* AbstractBuilder: construction and the derived paths                 *)
(* ------------------------------------------------------------------ *)
\* the mutant keys the install directory by family only
NewBuilderSharedPrefix(cls, version, compile_args, destdir) ==
    [cls |-> cls, version |-> version, compile_args |-> compile_args,
     install_dir |-> IF destdir = None THEN cls.default_destdir ELSE destdir,
     src_file |-> PathJoin(srcdir, Format(cls.src_template, version)),
     build_dir |-> PathJoin(srcdir, Format(cls.build_template, version))]

\* AbstractBuilder.__init__
NewBuilder(cls, version, compile_args, destdir) ==
    [cls |-> cls, version |-> version, compile_args |-> compile_args,
     install_dir |->
         PathJoin(IF destdir = None THEN cls.default_destdir ELSE destdir,
                  version),
     src_file |-> PathJoin(srcdir, Format(cls.src_template, version)),
     build_dir |-> PathJoin(srcdir, Format(cls.build_template, version))]

openssl_cli(b) ==
    PathJoin(PathJoin(b.install_dir, <<"b", "i", "n">>),
             <<"o", "p", "e", "n", "s", "s", "l">>)
include_dir(b) == PathJoin(b.install_dir, <<"i", "n", "c", "l", "u", "d", "e">>)
lib_dir(b) == PathJoin(b.install_dir, <<"l", "i", "b">>)

(* ------------------------------------------------------------------ *)
(* The disk: files (path -> content) and directories                   *)
(* ------------------------------------------------------------------ *)
\* A file's content.  kind "tar": a readable archive with its members;
\* "partial": an archive cut short; "src": an extracted source file;
\* "bin": an installed file.  reports is what `openssl version` of the
\* binary built from this source prints.
Content(kind, members, reports) ==
    [kind |-> kind, members |-> members, reports |-> reports]

isfile(fs, p) == p \in DOMAIN fs.files
isdir(fs, p) == p \in fs.dirs

\* p and every directory above it
Ancestors(p) ==
    LET comps == Resolve(SplitSlash(p, <<>>), <<>>)
    IN  {<<"/">> \o JoinSlash(SubSeq(comps, 1, k)) : k \in 1..Len(comps)}

\* os.makedirs(p)
makedirs(fs, p) == [fs EXCEPT !.dirs = @ \cup Ancestors(p)]

\* shutil.rmtree(p)
rmtree(fs, p) ==
    [files |-> [q \in {x \in DOMAIN fs.files : ~Under(x, p)} |-> fs.files[q]],
     dirs |-> {d \in fs.dirs : ~Under(d, p)}]

\* open(p, "wb").write(content)
WriteFile(fs, p, content) ==
    [fs EXCEPT !.files =
        [q \in DOMAIN fs.files \cup {p} |->
            IF q = p THEN content ELSE fs.files[q]]]

\* the mutant never finds an installation
has_openssl_never(b, fs) == FALSE

has_openssl(b, fs) == isfile(fs, openssl_cli(b))
has_src(b, fs) == isfile(fs, b.src_file)

(* ------------------------------------------------------------------ *)
(* Exceptions                                                          *)
(* ------------------------------------------------------------------ *)
Exc(type, arg) == [type |-> type, arg |-> arg]
NoError == Exc("none", <<>>)
Outcome(fs, err) == [fs |-> fs, err |-> err]

(* ------------------------------------------------------------------ *)
(* AbstractBuilder._download_src                                       *)
(* ------------------------------------------------------------------ *)
\* how the transfer ends, and the body the server sends
DownloadResults == {"connect_fails", "read_fails", "write_fails", "ok"}

PartialArchive == Content("partial", <<>>, <<>>)

_download_src(b, fs, result, body) ==
    LET src_dir == Dirname(b.src_file)
        fs1 == IF ~isdir(fs, src_dir) THEN makedirs(fs, src_dir) ELSE fs
    IN  CASE result = "connect_fails" -> Outcome(fs1, Exc("URLError", <<>>))
          [] result = "read_fails" -> Outcome(fs1, Exc("IOError", <<>>))
          [] result = "write_fails" ->
                Outcome(WriteFile(fs1, b.src_file, PartialArchive),
                        Exc("IOError", <<>>))
          [] OTHER -> Outcome(WriteFile(fs1, b.src_file, body), NoError)

(* ------------------------------------------------------------------ *)
(* AbstractBuilder._unpack_src                                         *)
(* ------------------------------------------------------------------ *)
Member(name, type) == [name |-> name, type |-> type]

\* The loop over tf.getmembers(): the members handed to extractall with
\* their names rewritten, or the ValueError of the first offending entry.
RECURSIVE RewriteMembers(_, _, _, _)
RewriteMembers(members, name, base, kept) ==
    IF members = <<>> THEN [err |-> NoError, members |-> kept]
    ELSE LET m == Head(members) IN
         IF m.name = name
         THEN RewriteMembers(Tail(members), name, base, kept)
         ELSE IF ~StartsWith(m.name, base)
         THEN [err |-> Exc("ValueError", m.name), members |-> <<>>]
         ELSE RewriteMembers(Tail(members), name, base,
                  Append(kept,
                         [m EXCEPT !.name =
                             LStripSlash(DropFirst(m.name, Len(base)))]))

\* where TarFile.extract puts a member: the path the kernel resolves
\* os.path.join(path, member.name) to
ExtractTarget(path, m) == Normpath(PathJoin(path, m.name))

\* TarFile.extractall(path, members) without an extraction filter
RECURSIVE extractall(_, _, _, _)
extractall(fs, path, members, reports) ==
    IF members = <<>> THEN Outcome(fs, NoError)
    ELSE LET m == Head(members)
             target == ExtractTarget(path, m)
         IN  IF m.type = "dir"
             THEN extractall(makedirs(fs, target), path, Tail(members), reports)
             ELSE IF isdir(fs, target)
             THEN Outcome(fs, Exc("IsADirectoryError", m.name))
             ELSE extractall(
                      WriteFile(makedirs(fs, Dirname(target)), target,
                                Content("src", <<>>, reports)),
                      path, Tail(members), reports)

\* the mutant extracts each accepted member as soon as it has been checked
RECURSIVE UnpackEager(_, _, _, _, _, _)
UnpackEager(fs, path, members, name, base, reports) ==
    IF members = <<>> THEN Outcome(fs, NoError)
    ELSE LET m == Head(members) IN
         IF m.name = name
         THEN UnpackEager(fs, path, Tail(members), name, base, reports)
         ELSE IF ~StartsWith(m.name, base)
         THEN Outcome(fs, Exc("ValueError", m.name))
         ELSE LET one == extractall(fs, path,
                             <<[m EXCEPT !.name =
                                 LStripSlash(DropFirst(m.name, Len(base)))]>>,
                             reports)
              IN  IF one.err # NoError THEN one
                  ELSE UnpackEager(one.fs, path, Tail(members), name, base,
                                   reports)

_unpack_src_eager(b, fs) ==
    LET fs1 == IF isdir(fs, b.build_dir) THEN rmtree(fs, b.build_dir) ELSE fs
        fs2 == makedirs(fs1, b.build_dir)
        tf == fs.files[b.src_file]
        name == Format(b.cls.build_template, b.version)
    IN  IF tf.kind # "tar" THEN Outcome(fs2, Exc("ReadError", <<>>))
        ELSE UnpackEager(fs2, b.build_dir, tf.members, name, name \o <<"/">>,
                         tf.reports)

_unpack_src(b, fs) ==
    LET fs1 == IF isdir(fs, b.build_dir) THEN rmtree(fs, b.build_dir) ELSE fs
        fs2 == makedirs(fs1, b.build_dir)
        tf == fs.files[b.src_file]
        name == Format(b.cls.build_template, b.version)
        base == name \o <<"/">>
        rw == RewriteMembers(tf.members, name, base, <<>>)
    IN  IF tf.kind # "tar" THEN Outcome(fs2, Exc("ReadError", <<>>))
        ELSE IF rw.err # NoError THEN Outcome(fs2, rw.err)
        ELSE extractall(fs2, b.build_dir, rw.members, tf.reports)

(* ------------------------------------------------------------------ *)
(* AbstractBuilder._build_src, _make_install, openssl_version          *)
(* ------------------------------------------------------------------ *)
ConfigScript(b) == PathJoin(b.build_dir, <<"c", "o", "n", "f", "i", "g">>)

BuildResults == {"ok", "config_fails", "make_fails"}

\* ./config and make run in build_dir; ./config must be a file there
_build_src(b, fs, result) ==
    IF ~isfile(fs, ConfigScript(b))
    THEN Outcome(fs, Exc("OSError", <<>>))
    ELSE IF result = "ok" THEN Outcome(fs, NoError)
    ELSE Outcome(fs, Exc("CalledProcessError", <<>>))

\* `make install` may stop before anything is installed ("fails_early") or
\* after the binary, headers and libraries are in place ("fails_late")
InstallResults == {"ok", "fails_early", "fails_late"}

LibFile(b) ==
    PathJoin(lib_dir(b), <<"l", "i", "b", "s", "s", "l", ".", "s", "o">>)

\* what `make install` copies below --prefix
InstalledTree(b, fs) ==
    LET bin == Content("bin", <<>>, fs.files[ConfigScript(b)].reports)
        fs1 == makedirs(makedirs(makedirs(fs, Dirname(openssl_cli(b))),
                                 include_dir(b)), lib_dir(b))
    IN  WriteFile(WriteFile(fs1, openssl_cli(b), bin), LibFile(b), bin)

_make_install(b, fs, result, remove) ==
    CASE result = "fails_early" -> Outcome(fs, Exc("CalledProcessError", <<>>))
      [] result = "fails_late" ->
            Outcome(InstalledTree(b, fs), Exc("CalledProcessError", <<>>))
      [] OTHER ->
            Outcome(IF remove THEN rmtree(InstalledTree(b, fs), b.build_dir)
                    ELSE InstalledTree(b, fs), NoError)

\* output of 'bin/openssl version'
openssl_version(b, fs) == fs.files[openssl_cli(b)].reports

(* ------------------------------------------------------------------ *)
(* State of one invocation of the script and of the machine it runs on *)
(* ------------------------------------------------------------------ *)
VARIABLES
    disk,     \* [files, dirs]: the file system, kept between invocations
    linked,   \* what ssl.OPENSSL_VERSION of ./python reports
    run,      \* number of this invocation
    pc,       \* the statement __main__ (or the method it called) is at
    idx,      \* position of the running loop in its list
    builds,   \* the list `builds`
    ops,      \* what the running install() has executed so far
    log,      \* what this invocation has done, in order
    stdout,   \* the builders printed
    error,    \* the exception that ended the invocation, and where it rose
    hist,     \* per declared version, how its last install() that found the
              \* library already installed ended
    exit,     \* exit status; Running while the script runs
    rt,       \* the clock and the modification times of the module sources
    env,      \* os.environ of the script and the environments of the
              \* subprocesses it has launched
    prev,     \* position of the version whose extraction, build or
              \* installation ended the previous invocation; 0: none
    probe     \* inputs and result of a function applied on its own

vars == <<disk, linked, run, pc, idx, builds, ops, log, stdout, error, hist,
          exit, rt, env, prev, probe>>

Running == 0 - 1
NoProbe == [kind |-> "none"]

\* the versions declared by lines 304-316, OpenSSL first
compile_args_for(version) ==
    IF version \in {<<"0", ".", "9", ".", "8", "i">>,
                    <<"0", ".", "9", ".", "8", "l">>,
                    <<"0", ".", "9", ".", "8", "k">>}
    THEN <<"no-asm">> ELSE <<>>

Declared ==
    [i \in 1..NumOpenSSL |->
        NewBuilder(BuildOpenSSL, OPENSSL_VERSIONS[i],
                   compile_args_for(OPENSSL_VERSIONS[i]), None)]
    \o
    [i \in 1..NumLibreSSL |->
        NewBuilder(BuildLibreSSL, LIBRESSL_VERSIONS[i], <<>>, None)]

NumDeclared == Len(Declared)

\* module_files, lines 67-70, in Python's build directory, in tuple order
module_files ==
    <<PathJoin(HERE, <<"M", "o", "d", "u", "l", "e", "s", "/",
                       "_", "s", "s", "l", ".", "c">>),
      PathJoin(HERE, <<"M", "o", "d", "u", "l", "e", "s", "/", "_", "h", "a",
                       "s", "h", "o", "p", "e", "n", "s", "s", "l", ".", "c">>)>>
ModuleFiles == {module_files[k] : k \in DOMAIN module_files}

\* module_libs, line 71
module_libs ==
    <<<<"_", "s", "s", "l">>, <<"_", "h", "a", "s", "h", "l", "i", "b">>>>

\* the sources were checked out at time 0 and it is time 1 now
InitialRuntime == [clock |-> 1, mtime |-> [f \in ModuleFiles |-> 0]]

\* the variables the script sets for its subprocesses
SearchPathVars == {"CPPFLAGS", "LDFLAGS", "LD_RUN_PATH", "LD_LIBRARY_PATH"}
UnsetEnv == [v \in SearchPathVars |-> None]
\* the environment the script is started in: the variables are unset, or
\* already point somewhere
AmbientEnvs ==
    {UnsetEnv, [v \in SearchPathVars |-> <<"/", "u", "s", "r">>]}

\* files of Python's build directory that _check_python_builddir looks for
BuilddirFiles ==
    {PathJoin(HERE, <<"p", "y", "t", "h", "o", "n">>),
     PathJoin(HERE, <<"s", "e", "t", "u", "p", ".", "p", "y">>),
     PathJoin(HERE, <<"M", "o", "d", "u", "l", "e", "s", "/",
                      "_", "s", "s", "l", ".", "c">>),
     PathJoin(HERE, <<"L", "i", "b", "/", "t", "e", "s", "t", "/",
                      "s", "s", "l", "t", "e", "s", "t", "s", ".", "p", "y">>)}

\* the files of a Python checkout the script looks at
PythonFiles == BuilddirFiles \cup ModuleFiles

PythonTree(present) ==
    [files |-> [p \in present |-> Content("src", <<>>, <<>>)],
     dirs |-> {HERE}]

_check_python_builddir(fs) == \A name \in BuilddirFiles : isfile(fs, name)

\* the library ./python is linked with before the script ever ran
SystemSSL ==
    <<"O", "p", "e", "n", "S", "S", "L", " ", "1", ".", "0", ".", "2", "g">>

\* what the binary built from a genuine source tree of b prints
Genuine(b) == b.cls.library \o <<" ">> \o b.version

\* bodies the download server may send for b: the genuine archive, an
\* archive laid out for b whose sources are another release, and an archive
\* with another top-level directory
OtherRelease == <<"0", ".", "0">>
GoodArchive(b) ==
    LET top == Format(b.cls.build_template, b.version)
    IN  Content("tar",
                <<Member(top, "dir"),
                  Member(top \o <<"/", "c", "o", "n", "f", "i", "g">>, "file")>>,
                Genuine(b))
MislabelledArchive(b) ==
    [GoodArchive(b) EXCEPT !.reports = b.cls.library \o <<" ">> \o OtherRelease]
ForeignArchive(b) ==
    LET top == Format(b.cls.build_template, OtherRelease)
    IN  Content("tar",
                <<Member(top, "dir"),
                  Member(top \o <<"/", "c", "o", "n", "f", "i", "g">>, "file")>>,
                b.cls.library \o <<" ">> \o OtherRelease)
ServerBodies(b) == {GoodArchive(b), MislabelledArchive(b), ForeignArchive(b)}

\* cached: the library binary was in place when install() was entered
NoOps == [cached |-> FALSE, download |-> 0, unpack |-> 0, config |-> 0,
          make |-> 0, make_install |-> 0]

\* no exception so far
NoFailure == [type |-> "none", arg |-> <<>>, at |-> "none", i |-> 0]
Failed == error.type # "none"

Event(ev, i) == [ev |-> ev, i |-> i]


Init ==
    /\ \E present \in {PythonFiles} \cup
                      {PythonFiles \ {f} : f \in PythonFiles} :
           disk = PythonTree(present)
    /\ linked = SystemSSL
    /\ run = 1
    /\ pc = "make"
    /\ idx = 1
    /\ builds = <<>>
    /\ ops = NoOps
    /\ log = <<>>
    /\ stdout = <<>>
    /\ error = NoFailure
    /\ hist = [i \in 1..NumDeclared |-> "none"]
    /\ exit = Running
    /\ rt = InitialRuntime
    /\ \E ambient \in AmbientEnvs : env = [environ |-> ambient, launched |-> {}]
    /\ prev = 0
    /\ probe = NoProbe

\* the mutant overlays os.environ itself
recompile_env_inplace(b, environ) ==
    LET e == [environ EXCEPT !["CPPFLAGS"] = <<"-", "I">> \o include_dir(b),
                             !["LDFLAGS"] = <<"-", "L">> \o lib_dir(b),
                             !["LD_RUN_PATH"] = lib_dir(b)]
    IN  [env |-> e, environ |-> e]

\* lines 224-228: the overlay is made on a copy of os.environ
recompile_env(b, environ) ==
    [env |-> [environ EXCEPT !["CPPFLAGS"] = <<"-", "I">> \o include_dir(b),
                             !["LDFLAGS"] = <<"-", "L">> \o lib_dir(b),
                             !["LD_RUN_PATH"] = lib_dir(b)],
     environ |-> environ]

\* subprocess.check_call(cmd, env=e) for the version at position i
Launch(ev, i, cmd, e) ==
    [ev EXCEPT !.launched = @ \cup {[i |-> i, cmd |-> cmd, env |-> e]}]

\* _subprocess_output(), lines 131-133: a copy of os.environ with
\* LD_LIBRARY_PATH set
_subprocess_output_env(b, environ) ==
    [env |-> [environ EXCEPT !["LD_LIBRARY_PATH"] = lib_dir(b)],
     environ |-> environ]

\* control passes to statement p with loop position i
Goto(p, i) ==
    /\ pc' = p
    /\ idx' = i
    /\ UNCHANGED <<error, exit>>

\* the mutant catches the exception at the per-version boundary, records it
\* and goes on with the next version
RaiseCaught(e) ==
    /\ error' = [type |-> e.type, arg |-> e.arg, at |-> pc, i |-> idx]
    /\ exit' = exit
    /\ idx' = idx + 1
    /\ pc' = CASE pc = "make" -> "exit"
               [] pc \in {"compile", "c_setup"} -> "compile"
               [] pc \in {"t_recompile", "t_setup", "t_pyssl", "t_run"} ->
                     "t_recompile"
               [] OTHER -> "construct"

\* an exception nobody catches: traceback, exit status 1
Raise(e) ==
    /\ error' = [type |-> e.type, arg |-> e.arg, at |-> pc, i |-> idx]
    /\ exit' = 1
    /\ pc' = "exit"
    /\ idx' = idx

\* lines 288-296: ./configure when there is no Makefile, then make
MainMake ==
    /\ pc = "make"
    /\ env' = Launch(env, 0, "make", env.environ)
    /\ \E ok \in BOOLEAN :
          IF ok THEN Goto("construct", 1)
          ELSE Raise(Exc("CalledProcessError", <<>>))
    /\ UNCHANGED <<disk, linked, run, builds, ops, log, stdout, hist, rt, prev,
                   probe>>

\* the mutant leaves the loops of lines 304-316 after the first version
InstallLoopDoneEarly(i) == i > 1

\* the loops of lines 304 and 313 have gone through both lists
InstallLoopDone(i) == i > NumDeclared

\* lines 304-309, 313-314: the next version's builder is constructed; when
\* both lists are exhausted the loop of line 319 starts
Construct ==
    /\ pc = "construct"
    /\ IF InstallLoopDone(idx)
       THEN Goto("compile", 1) /\ UNCHANGED ops
       ELSE IF ~_check_python_builddir(disk)
       THEN Raise(Exc("ValueError", <<>>)) /\ UNCHANGED ops
       ELSE Goto("install", idx) /\ ops' = NoOps
    /\ UNCHANGED <<disk, linked, run, builds, log, stdout, hist, rt, env, prev,
                   probe>>

\* install(), the test of line 197
InstallNeeded(b, fs) == ~has_openssl(b, fs)

\* install(), lines 196-197 and 205-206
InstallEnter ==
    /\ pc = "install"
    /\ Goto(IF InstallNeeded(Declared[idx], disk) THEN "fetch" ELSE "verify",
            idx)
    /\ ops' = [ops EXCEPT !.cached = isfile(disk, openssl_cli(Declared[idx]))]
    /\ UNCHANGED <<disk, linked, run, builds, log, stdout, hist, rt, env, prev,
                   probe>>

\* install(), lines 198-201
InstallFetch ==
    /\ pc = "fetch"
    /\ LET b == Declared[idx] IN
       IF ~has_src(b, disk)
       THEN \E result \in DownloadResults, body \in ServerBodies(b) :
              LET r == _download_src(b, disk, result, body) IN
              /\ disk' = r.fs
              /\ ops' = [ops EXCEPT !.download = @ + 1]
              /\ IF r.err # NoError THEN Raise(r.err) ELSE Goto("unpack", idx)
       ELSE /\ Goto("unpack", idx)
            /\ UNCHANGED <<disk, ops>>
    /\ UNCHANGED <<linked, run, builds, log, stdout, hist, rt, env, prev,
                   probe>>

\* install(), line 202
InstallUnpack ==
    /\ pc = "unpack"
    /\ LET r == _unpack_src(Declared[idx], disk) IN
       /\ disk' = r.fs
       /\ ops' = [ops EXCEPT !.unpack = @ + 1]
       /\ IF r.err # NoError THEN Raise(r.err) ELSE Goto("build", idx)
    /\ UNCHANGED <<linked, run, builds, log, stdout, hist, rt, env, prev,
                   probe>>

\* install(), line 203
InstallBuild ==
    /\ pc = "build"
    /\ \E result \in BuildResults :
          LET r == _build_src(Declared[idx], disk, result) IN
          /\ disk' = r.fs
          /\ ops' = [ops EXCEPT
                        !.config = @ + 1,
                        !.make = IF result = "config_fails"
                                    \/ r.err.type = "OSError"
                                 THEN @ ELSE @ + 1]
          /\ env' = IF r.err.type = "OSError" THEN env
                    ELSE IF result = "config_fails"
                    THEN Launch(env, idx, "config", env.environ)
                    ELSE Launch(Launch(env, idx, "config", env.environ),
                                idx, "make", env.environ)
          /\ IF r.err # NoError THEN Raise(r.err)
             ELSE Goto("make_install", idx)
    /\ UNCHANGED <<linked, run, builds, log, stdout, hist, rt, prev,
                   probe>>

\* install(), line 204
InstallMakeInstall ==
    /\ pc = "make_install"
    /\ \E result \in InstallResults :
          LET r == _make_install(Declared[idx], disk, result, TRUE) IN
          /\ disk' = r.fs
          /\ ops' = [ops EXCEPT !.make_install = @ + 1]
          /\ env' = Launch(env, idx, "make_install", env.environ)
          /\ IF r.err # NoError THEN Raise(r.err) ELSE Goto("verify", idx)
    /\ UNCHANGED <<linked, run, builds, log, stdout, hist, rt, prev,
                   probe>>

\* the mutant returns without comparing the versions
VerifySkipped(b, fs) == NoError

\* install(), lines 207-210
Verify(b, fs) ==
    LET version == openssl_version(b, fs)
    IN  IF ~Contains(version, b.version) THEN Exc("ValueError", version)
        ELSE NoError

\* install() returns and lines 311 / 316 append the builder
InstallVerify ==
    /\ pc = "verify"
    /\ LET b == Declared[idx]
           e == Verify(b, disk)
       IN  IF e # NoError
           THEN /\ Raise(e)
                /\ UNCHANGED <<builds, log>>
           ELSE /\ builds' = Append(builds, b)
                /\ log' = Append(log, Event("installed", idx))
                /\ Goto("construct", idx + 1)
    /\ env' = LET o == _subprocess_output_env(Declared[idx], env.environ)
              IN  Launch([env EXCEPT !.environ = o.environ], idx,
                         "openssl_version", o.env)
    /\ hist' = IF ops.cached
               THEN [hist EXCEPT ![idx] =
                        IF Verify(Declared[idx], disk) = NoError
                        THEN "ok" ELSE "mismatch"]
               ELSE hist
    /\ UNCHANGED <<disk, linked, run, ops, stdout, rt, prev,
                   probe>>

(* ------------------------------------------------------------------ *)
(* recompile_pymods, check_imports, check_pyssl, run_python_tests      *)
(* ------------------------------------------------------------------ *)
\* `./python setup.py build` under the overlay of b: it fails, or links the
\* modules with b's library, or succeeds while the modules load another one
SetupBuildResults == {"ok", "ok_other_lib", "fails"}

\* os.path.basename(p)
Basename(p) == LET comps == SplitSlash(p, <<>>) IN comps[Len(comps)]

\* os.utime(fname, None): the file's times become the current time; reading
\* the clock takes time
utime(fs, r, fname) ==
    IF ~isfile(fs, fname) THEN [rt |-> r, err |-> Exc("OSError", fname)]
    ELSE [rt |-> [r EXCEPT !.mtime[fname] = r.clock, !.clock = @ + 1],
          err |-> NoError]

\* lines 215-216: the loop stops at the first exception
RECURSIVE TouchModuleFiles(_, _, _)
TouchModuleFiles(fs, r, k) ==
    IF k > Len(module_files) THEN [rt |-> r, err |-> NoError]
    ELSE LET u == utime(fs, r, module_files[k]) IN
         IF u.err # NoError THEN u ELSE TouchModuleFiles(fs, u.rt, k + 1)

\* the directory os.walk('build') starts from
BuildTree == PathJoin(HERE, <<"b", "u", "i", "l", "d">>)

\* the mutant compares with the first module name only
StaleArtefactsFirstLib(fs) ==
    {p \in DOMAIN fs.files :
        /\ StrictlyUnder(p, BuildTree)
        /\ StartsWith(Basename(p), module_libs[1])}

\* lines 218-220: the files below build, at any depth, whose name starts
\* with one of module_libs
StaleArtefacts(fs) ==
    {p \in DOMAIN fs.files :
        /\ StrictlyUnder(p, BuildTree)
        /\ \E k \in DOMAIN module_libs : StartsWith(Basename(p), module_libs[k])}

\* os.unlink of every path of ps, line 221
unlink(fs, ps) ==
    [fs EXCEPT !.files = [q \in DOMAIN fs.files \ ps |-> fs.files[q]]]

\* what `setup.py build` leaves below build when it succeeds: the extension
\* modules and their objects
BuildOutputs ==
    {PathJoin(BuildTree, <<"l", "i", "b", "/",
                           "_", "s", "s", "l", ".", "s", "o">>),
     PathJoin(BuildTree, <<"l", "i", "b", "/", "_", "h", "a", "s", "h", "l",
                           "i", "b", ".", "s", "o">>),
     PathJoin(BuildTree, <<"l", "i", "b", "/", "_", "s", "o", "c", "k", "e",
                           "t", ".", "s", "o">>),
     PathJoin(BuildTree, <<"t", "e", "m", "p", "/", "M", "o", "d", "u", "l",
                           "e", "s", "/", "_", "s", "s", "l", ".", "o">>),
     PathJoin(BuildTree, <<"t", "e", "m", "p", "/", "M", "o", "d", "u", "l",
                           "e", "s", "/", "_", "h", "a", "s", "h", "o", "p",
                           "e", "n", "s", "s", "l", ".", "o">>)}

SetupBuild(fs) ==
    [files |-> [q \in DOMAIN fs.files \cup BuildOutputs |->
                   IF q \in BuildOutputs THEN Content("obj", <<>>, <<>>)
                   ELSE fs.files[q]],
     dirs |-> fs.dirs \cup UNION {Ancestors(Dirname(q)) : q \in BuildOutputs}]

\* recompile_pymods(), lines 215-221, for builds[idx]: touch the module
\* sources, remove the stale artefacts; control goes on to the build command
recompile_pymods(b, then_pc) ==
    LET t == TouchModuleFiles(disk, rt, 1) IN
    /\ rt' = t.rt
    /\ IF t.err # NoError
       THEN Raise(t.err) /\ UNCHANGED disk
       ELSE /\ disk' = unlink(disk, StaleArtefacts(disk))
            /\ Goto(then_pc, idx)

\* recompile_pymods(), lines 224-233, with check_imports(), lines 235-237;
\* control goes to (then_pc, then_idx) when both commands succeed
setup_build(b, then_pc, then_idx) ==
    \E build \in SetupBuildResults, imports \in BOOLEAN :
       LET o == recompile_env(b, env.environ)
           e1 == Launch([env EXCEPT !.environ = o.environ], idx,
                        "setup_build", o.env)
       IN
       /\ env' = IF build = "fails" THEN e1
                 ELSE Launch(e1, idx, "check_imports", e1.environ)
       /\ disk' = IF build = "fails" THEN disk ELSE SetupBuild(disk)
       /\ linked' = IF build = "ok" /\ isfile(disk, LibFile(b))
                    THEN disk.files[LibFile(b)].reports ELSE linked
       /\ IF build = "fails" \/ ~imports
          THEN /\ log' = Append(log, Event("rebuild", idx))
               /\ Raise(Exc("CalledProcessError", <<>>))
          ELSE /\ log' = log \o <<Event("rebuild", idx),
                                   Event("imports_ok", idx)>>
               /\ Goto(then_pc, then_idx)

\* lines 319-320
CompilePass ==
    /\ pc = "compile"
    /\ IF idx > Len(builds)
       THEN Goto("t_recompile", 1) /\ UNCHANGED <<disk, rt>>
       ELSE recompile_pymods(builds[idx], "c_setup")
    /\ UNCHANGED <<linked, run, builds, ops, log, stdout, hist, env, prev,
                   probe>>

\* line 320: the build command and the import check of recompile_pymods()
CompileSetup ==
    /\ pc = "c_setup"
    /\ setup_build(builds[idx], "compile", idx + 1)
    /\ UNCHANGED <<run, builds, ops, stdout, hist, rt, prev, probe>>

\* lines 327-328 and run_python_tests(), line 256
TestRecompile ==
    /\ pc = "t_recompile"
    /\ IF idx > Len(builds)
       THEN Goto("summary", idx) /\ UNCHANGED <<disk, rt>>
       ELSE recompile_pymods(builds[idx], "t_setup")
    /\ UNCHANGED <<linked, run, builds, ops, log, stdout, hist, env, prev,
                   probe>>

\* run_python_tests(), line 256: the build command and the import check
TestSetup ==
    /\ pc = "t_setup"
    /\ setup_build(builds[idx], "t_pyssl", idx)
    /\ UNCHANGED <<run, builds, ops, stdout, hist, rt, prev, probe>>

\* the mutant does not look at the reported version
check_pyssl_skipped(b, pyssl_version) == NoError

\* check_pyssl(), lines 239-242
check_pyssl(b, pyssl_version) ==
    IF ~Contains(pyssl_version, b.version)
    THEN Exc("ValueError", pyssl_version) ELSE NoError

\* run_python_tests(), line 257
TestCheckPyssl ==
    /\ pc = "t_pyssl"
    /\ env' = LET o == _subprocess_output_env(builds[idx], env.environ)
              IN  Launch([env EXCEPT !.environ = o.environ], idx,
                         "pyssl_version", o.env)
    /\ LET e == check_pyssl(builds[idx], linked) IN
       IF e # NoError
       THEN Raise(e) /\ UNCHANGED log
       ELSE Goto("t_run", idx) /\ log' = Append(log, Event("pyssl_ok", idx))
    /\ UNCHANGED <<disk, linked, run, builds, ops, stdout, hist, rt, prev,
                   probe>>

\* str(builder)
Str(b) == <<b.cls.library, b.version>>

\* the mutant records the failure and lets the loop go on
TestFailedRecorded(b) ==
    /\ stdout' = Append(stdout, Str(b))
    /\ error' = [type |-> "CalledProcessError", arg |-> <<>>, at |-> pc,
                  i |-> idx]
    /\ exit' = exit
    /\ pc' = "t_recompile"
    /\ idx' = idx + 1

\* run_python_tests(), lines 260-262: print the builder, raise again
TestFailed(b) ==
    /\ stdout' = Append(stdout, Str(b))
    /\ Raise(Exc("CalledProcessError", <<>>))

\* run_python_tests(), lines 258-262 with run_pytests()
TestRun ==
    /\ pc = "t_run"
    /\ env' = Launch(env, idx, "pytests", env.environ)
    /\ \E passed \in BOOLEAN :
          IF passed
          THEN /\ log' = log \o <<Event("test", idx), Event("test_ok", idx)>>
               /\ Goto("t_recompile", idx + 1)
               /\ UNCHANGED stdout
          ELSE /\ log' = Append(log, Event("test", idx))
               /\ TestFailed(builds[idx])
    /\ UNCHANGED <<disk, linked, run, builds, ops, hist, rt, prev,
                   probe>>

PythonLine == <<<<"P", "y", "t", "h", "o", "n">>, <<"v">>>>
ElapsedLine == <<<<"e", "l", "a", "p", "s", "e", "d">>, <<"t">>>>

\* lines 330-333, then the script ends
Summary ==
    /\ pc = "summary"
    /\ stdout' = stdout \o [i \in 1..Len(builds) |-> Str(builds[i])]
                        \o <<PythonLine, ElapsedLine>>
    /\ exit' = 0
    /\ pc' = "exit"
    /\ UNCHANGED <<disk, linked, run, idx, builds, ops, log, error, hist, rt, env, prev,
                   probe>>

\* the statements of install() after the download: lines 200-204
BuildStagePcs == {"unpack", "build", "make_install"}

\* an invocation reads the clock at most this often: every module file, in
\* the compile pass and in the test loop, for every version
TicksPerRun == Len(module_files) * 2 * NumDeclared

\* the operator starts the script again on the same machine, TicksPerRun
\* after the previous start
Rerun ==
    /\ pc = "exit"
    /\ run < MaxRuns
    /\ run' = run + 1
    /\ pc' = "make"
    /\ idx' = 1
    /\ builds' = <<>>
    /\ ops' = NoOps
    /\ log' = <<>>
    /\ stdout' = <<>>
    /\ error' = NoFailure
    /\ exit' = Running
    /\ prev' = IF error.at \in BuildStagePcs THEN error.i ELSE 0
    /\ env' = [env EXCEPT !.launched = {}]
    /\ rt' = [rt EXCEPT !.clock = run * TicksPerRun + 1]
    /\ UNCHANGED <<disk, linked, hist, probe>>

Next ==
    \/ MainMake
    \/ Construct
    \/ InstallEnter
    \/ InstallFetch
    \/ InstallUnpack
    \/ InstallBuild
    \/ InstallMakeInstall
    \/ InstallVerify
    \/ CompilePass
    \/ CompileSetup
    \/ TestRecompile
    \/ TestSetup
    \/ TestCheckPyssl
    \/ TestRun
    \/ Summary
    \/ Rerun

Spec == Init /\ [][Next]_vars

(* ------------------------------------------------------------------ *)
(* _unpack_src applied to arbitrary archives                           *)
(* ------------------------------------------------------------------ *)
\* longest archive of the unpack probe
MaxMembers == 2

UnpackBuilder == Declared[1]
Top == Format(UnpackBuilder.cls.build_template, UnpackBuilder.version)

\* the archive's own file name
ArchiveName ==
    DropFirst(UnpackBuilder.src_file, Len(Dirname(UnpackBuilder.src_file)) + 1)

\* names of regular files an archive may hold: below the expected top-level
\* directory (plain, nested, doubled separator, with ".." components, one
\* of them leading to the archive itself), beside it, and with a top-level
\* name that only starts like it
FileNames ==
    {Top \o <<"/", "a">>,
     Top \o <<"/", "d", "/", "b">>,
     Top \o <<"/", "/", "a">>,
     Top \o <<"/", "d", "/", ".", ".", "/", "b">>,
     Top \o <<"/", ".", ".", "/", "a">>,
     Top \o <<"/", ".", ".", "/", ".", ".", "/", "a">>,
     Top \o <<"/", ".", ".", "/">> \o Top \o <<"/", "a">>,
     Top \o <<"/", ".", ".", "/">> \o ArchiveName,
     Top \o <<"x", "/", "a">>,
     <<"a">>,
     <<".", ".", "/", "a">>,
     <<"/", "a">>}

Entries ==
    {Member(n, "file") : n \in FileNames}
    \cup {Member(Top, "dir"), Member(Top \o <<"/", "d">>, "dir")}

\* a file left in the build directory by an earlier attempt
StaleFile == PathJoin(UnpackBuilder.build_dir, <<"s", "t", "a", "l", "e">>)

\* the disk before _unpack_src: the archive is cached, the build directory
\* is absent or holds a stale file
DiskWithArchive(members, stale) ==
    LET fs0 == makedirs(PythonTree(BuilddirFiles), srcdir)
        fs1 == WriteFile(fs0, UnpackBuilder.src_file,
                         Content("tar", members, Genuine(UnpackBuilder)))
    IN  IF stale
        THEN WriteFile(makedirs(fs1, UnpackBuilder.build_dir), StaleFile,
                       Content("src", <<>>, <<>>))
        ELSE fs1

InitUnpack ==
    /\ \E k \in 1..MaxMembers, stale \in BOOLEAN :
         \E members \in [1..k -> Entries] :
            /\ disk = DiskWithArchive(members, stale)
            /\ probe = [kind |-> "unpack", done |-> FALSE,
                        members |-> members,
                        before |-> DiskWithArchive(members, stale)]
    /\ linked = SystemSSL
    /\ run = 1
    /\ pc = "unpack"
    /\ idx = 1
    /\ builds = <<>>
    /\ ops = NoOps
    /\ log = <<>>
    /\ stdout = <<>>
    /\ error = NoFailure
    /\ hist = [i \in 1..NumDeclared |-> "none"]
    /\ exit = Running
    /\ rt = InitialRuntime
    /\ env = [environ |-> UnsetEnv, launched |-> {}]
    /\ prev = 0

\* _unpack_src() is called once
UnpackProbe ==
    /\ probe.kind = "unpack"
    /\ ~probe.done
    /\ LET r == _unpack_src(UnpackBuilder, disk) IN
       /\ disk' = r.fs
       /\ error' = [type |-> r.err.type, arg |-> r.err.arg, at |-> pc,
                    i |-> idx]
    /\ probe' = [probe EXCEPT !.done = TRUE]
    /\ UNCHANGED <<linked, run, pc, idx, builds, ops, log, stdout, hist, exit,
                   rt, env, prev>>

NextUnpack == UnpackProbe

SpecUnpack == InitUnpack /\ [][NextUnpack]_vars

(* ------------------------------------------------------------------ *)
(* The layout computed by two builders                                 *)
(* ------------------------------------------------------------------ *)
VerAlphabet == {"0", "1", ".", "k"}
VersionStrings == UNION {[1..n -> VerAlphabet] : n \in 1..MaxVerLen}

\* an install root passed as destdir
OtherDestdir == <<"/", "o", "p", "t">>

InitLayout ==
    /\ \E c1 \in {BuildOpenSSL, BuildLibreSSL},
          c2 \in {BuildOpenSSL, BuildLibreSSL},
          d \in {None, OtherDestdir} :
         \E v1 \in VersionStrings, v2 \in VersionStrings :
            probe = [kind |-> "layout", done |-> FALSE, c1 |-> c1, c2 |-> c2,
                     destdir |-> d, v1 |-> v1, v2 |-> v2,
                     b1 |-> <<>>, b2 |-> <<>>]
    /\ disk = PythonTree(BuilddirFiles)
    /\ linked = SystemSSL
    /\ run = 1
    /\ pc = "construct"
    /\ idx = 1
    /\ builds = <<>>
    /\ ops = NoOps
    /\ log = <<>>
    /\ stdout = <<>>
    /\ error = NoFailure
    /\ hist = [i \in 1..NumDeclared |-> "none"]
    /\ exit = Running
    /\ rt = InitialRuntime
    /\ env = [environ |-> UnsetEnv, launched |-> {}]
    /\ prev = 0

\* both builders are constructed
LayoutProbe ==
    /\ probe.kind = "layout"
    /\ ~probe.done
    /\ probe' = [probe EXCEPT
                    !.done = TRUE,
                    !.b1 = NewBuilder(probe.c1, probe.v1, <<>>, probe.destdir),
                    !.b2 = NewBuilder(probe.c2, probe.v2, <<>>, probe.destdir)]
    /\ UNCHANGED <<disk, linked, run, pc, idx, builds, ops, log, stdout, error,
                   hist, exit, rt, env, prev>>

NextLayout == LayoutProbe

SpecLayout == InitLayout /\ [][NextLayout]_vars

(* ------------------------------------------------------------------ *)
(* Properties                                                          *)
(* ------------------------------------------------------------------ *)
Range(seq) == {seq[k] : k \in 1..Len(seq)}
Has(ev, i) == Event(ev, i) \in Range(log)
Count(ev, i) == Cardinality({k \in 1..Len(log) : log[k] = Event(ev, i)})

\* the statements of the loops of lines 304-316 and of install()
InstallPcs == {"construct", "install", "fetch", "unpack", "build",
               "make_install", "verify"}

C3_CachedInstallIdempotent ==
    [][ /\ (pc = "install" /\ isfile(disk, openssl_cli(Declared[idx]))) =>
              /\ pc' = "verify"
              /\ disk' = disk
              /\ ops' = [NoOps EXCEPT !.cached = TRUE]
        /\ (pc = "verify" /\ ops.cached) =>
              /\ disk' = disk
              /\ ops' = ops
              /\ hist[idx] # "none" => hist'[idx] = hist[idx]
              /\ (hist'[idx] = "ok") <=> (pc' = "construct")
      ]_vars

\* install() found the binary for the second time in a row, with the
\* archive cached and a build directory left on disk
C3_Witness ==
    /\ pc = "verify"
    /\ ops.cached
    /\ hist[idx] # "none"
    /\ has_src(Declared[idx], disk)
    /\ isdir(disk, Declared[idx].build_dir)

\* an entry the loop of _unpack_src rejects
Offending(m) == m.name # Top /\ ~StartsWith(m.name, Top \o <<"/">>)

\* where an accepted entry belongs
StrippedTarget(m) ==
    Normpath(UnpackBuilder.build_dir \o <<"/">>
             \o LStripSlash(DropFirst(m.name, Len(Top) + 1)))

\* the files the call created or rewrote
NewFiles ==
    {p \in DOMAIN disk.files :
        p \in DOMAIN probe.before.files =>
           disk.files[p] # probe.before.files[p]}
NewDirs == disk.dirs \ probe.before.dirs

\* C4 as stated: whatever the archive holds, extraction creates nothing
\* outside the build directory.
C4_ExtractionContained ==
    (probe.kind = "unpack" /\ probe.done) =>
        \A p \in NewFiles \cup NewDirs : Under(p, UnpackBuilder.build_dir)

\* C5: if some entry is neither the top-level directory nor below it, the
\* unpacking ends with a ValueError carrying the (first) offending name and
\* nothing of the archive is on disk, valid entries listed before it
\* included; otherwise the top-level entry is dropped and every other entry
\* is extracted at its name with the prefix and leading separators stripped.
C5_StrictAllowList ==
    (probe.kind = "unpack" /\ probe.done) =>
        LET ms == probe.members
            bad == {k \in 1..Len(ms) : Offending(ms[k])}
            first == CHOOSE k \in bad : \A k2 \in bad : k <= k2
            kept == {k \in 1..Len(ms) : ms[k].name # Top}
        IN  IF bad # {}
            THEN /\ error.type = "ValueError"
                 /\ error.arg = ms[first].name
                 /\ NewFiles = {}
                 /\ NewDirs \subseteq {UnpackBuilder.build_dir}
                 /\ \A q \in DOMAIN disk.files :
                       ~StrictlyUnder(q, UnpackBuilder.build_dir)
            ELSE /\ error.type = "none"
                 /\ NewFiles =
                       {StrippedTarget(ms[k]) :
                           k \in {x \in kept : ms[x].type = "file"}}
                 /\ \A k \in kept :
                       ms[k].type = "dir" => isdir(disk, StrippedTarget(ms[k]))

\* a valid entry is listed before an offending one
C5_Witness ==
    /\ probe.kind = "unpack"
    /\ probe.done
    /\ Len(probe.members) = 2
    /\ probe.members[1].name = Top \o <<"/", "a">>
    /\ Offending(probe.members[2])
    /\ error.type = "ValueError"

\* C6: install() returns if and only if the string printed by the installed
\* binary's version subcommand contains the requested version, on the path
\* that built the library as on the path that found it installed; otherwise
\* it raises ValueError with the printed string.
C6_InstalledVersionVerified ==
    [][ pc = "verify" =>
          LET b == Declared[idx]
              reported == disk.files[openssl_cli(b)].reports
          IN  IF Contains(reported, b.version)
              THEN /\ pc' = "construct"
                   /\ builds' = Append(builds, b)
                   /\ error' = error
                   /\ exit' = Running
              ELSE /\ pc' = "exit"
                   /\ exit' = 1
                   /\ error'.type = "ValueError"
                   /\ error'.arg = reported
                   /\ builds' = builds
      ]_vars

\* the version check failed on the path that found the library installed
C6_Witness ==
    /\ pc = "exit"
    /\ error.at = "verify"
    /\ error.type = "ValueError"
    /\ ops.cached

\* C7: two builders of one family for different versions have different
\* archive paths, build directories and install prefixes (as strings and as
\* the directories they denote), hence different binaries.
C7_CacheIsolation ==
    (probe.kind = "layout" /\ probe.done /\ probe.c1 = probe.c2
        /\ probe.v1 # probe.v2) =>
        /\ probe.b1.src_file # probe.b2.src_file
        /\ probe.b1.build_dir # probe.b2.build_dir
        /\ probe.b1.install_dir # probe.b2.install_dir
        /\ Normpath(probe.b1.src_file) # Normpath(probe.b2.src_file)
        /\ Normpath(probe.b1.build_dir) # Normpath(probe.b2.build_dir)
        /\ Normpath(probe.b1.install_dir) # Normpath(probe.b2.install_dir)
        /\ openssl_cli(probe.b1) # openssl_cli(probe.b2)

\* two builders of one family, the second version extending the first
C7_Witness ==
    /\ probe.kind = "layout"
    /\ probe.done
    /\ probe.c1 = BuildOpenSSL
    /\ probe.c2 = BuildOpenSSL
    /\ probe.destdir = None
    /\ probe.v1 = <<"1">>
    /\ probe.v2 = <<"1", "k">>

\* C8: the runtime is not rebuilt for any version before every declared
\* version of both families has been installed and verified, in declaration
\* order; afterwards each test run directly follows the rebuild and the
\* version check of its own version, and versions are tested in declaration
\* order.
C8_StageOrdering ==
    \A k \in 1..Len(log) :
        /\ log[k].ev = "rebuild" =>
              /\ k > NumDeclared
              /\ \A i \in 1..NumDeclared : log[i] = Event("installed", i)
        /\ log[k].ev = "test" =>
              /\ k > 3
              /\ log[k - 1] = Event("pyssl_ok", log[k].i)
              /\ log[k - 2] = Event("imports_ok", log[k].i)
              /\ log[k - 3] = Event("rebuild", log[k].i)
              /\ \A i \in 1..(log[k].i - 1) :
                    \E k2 \in 1..(k - 1) : log[k2] = Event("test_ok", i)

\* the second declared version is being tested
C8_Witness == Has("test", 2)

\* every declared version went through all its stages
AllPassed ==
    \A i \in 1..NumDeclared :
        /\ Has("installed", i)
        /\ Has("rebuild", i)
        /\ Has("pyssl_ok", i)
        /\ Has("test_ok", i)

\* C9: the script exits with status 0 if and only if every declared version
\* was installed, verified, rebound and passed its tests; any failure gives
\* a non-zero status.
C9_ExitStatus ==
    pc = "exit" =>
        /\ exit \in {0, 1}
        /\ (exit = 0) <=> AllPassed
        /\ (exit = 1) <=> Failed

\* a run in which every version passed
C9_Witness == pc = "exit" /\ exit = 0 /\ AllPassed

\* C10 as stated: whenever install() has returned for a version, that
\* version's build directory does not exist.
C10_BuildDirRemoved ==
    \A i \in 1..NumDeclared :
        Has("installed", i) => ~isdir(disk, Declared[i].build_dir)


(* ------------------------------------------------------------------ *)
(* C11                                                                 *)
(* ------------------------------------------------------------------ *)
SetupPcs == {"c_setup", "t_setup"}

\* a file of the build output tree named after one of the native modules
NamedAfterModuleLib(p) ==
    /\ StrictlyUnder(p, BuildTree)
    /\ \E k \in DOMAIN module_libs : StartsWith(Basename(p), module_libs[k])

\* C11: whenever recompile_pymods reaches its build command, every module
\* source has a later modification time than when the call began, and no
\* file below build has a name that starts with _ssl or _hashlib.
C11_RebindForcesRecompilation ==
    [][(pc' \in SetupPcs /\ pc \notin SetupPcs) =>
          /\ \A f \in ModuleFiles : rt'.mtime[f] > rt.mtime[f]
          /\ \A p \in DOMAIN disk'.files : ~NamedAfterModuleLib(p)]_vars

\* the build command is about to run for the second time or later: the
\* outputs of an earlier build are on disk, those of the native modules
\* are gone
C11_Witness ==
    /\ pc = "t_setup"
    /\ \A f \in ModuleFiles : rt.mtime[f] > 2
    /\ \E p \in BuildOutputs : isfile(disk, p)
    /\ \A p \in DOMAIN disk.files : ~NamedAfterModuleLib(p)


(* ------------------------------------------------------------------ *)
(* C12                                                                 *)
(* ------------------------------------------------------------------ *)
\* the values the script sets for the subprocesses of builder b
OwnOverlay(b) ==
    [v \in SearchPathVars |->
        CASE v = "CPPFLAGS" -> <<"-", "I">> \o include_dir(b)
          [] v = "LDFLAGS" -> <<"-", "L">> \o lib_dir(b)
          [] OTHER -> lib_dir(b)]

\* every subprocess launched so far saw, for each search-path variable, the
\* script's own value or the value of the version it was launched for
LaunchedOwn ==
    \A l \in env.launched : \A v \in SearchPathVars :
        \/ l.env[v] = env.environ[v]
        \/ l.i \in 1..NumDeclared /\ l.env[v] = OwnOverlay(Declared[l.i])[v]

\* C12: no operation changes the script's own environment, and what a
\* subprocess sees in a search-path variable is the ambient value or the
\* value set for its own version, never another version's.
C12_EnvironmentOverlayOnCopy ==
    [][env'.environ = env.environ /\ LaunchedOwn']_vars

\* both kinds of overlay were used for two versions, and a subprocess
\* without overlay ran after them
C12_Witness ==
    /\ pc = "exit"
    /\ \A i \in 1..2 : \E l1, l2, l3 \in env.launched :
          /\ l1.i = i /\ l1.cmd = "setup_build"
          /\ l1.env["LD_RUN_PATH"] = lib_dir(Declared[i])
          /\ l2.i = i /\ l2.cmd = "pyssl_version"
          /\ l2.env["LD_LIBRARY_PATH"] = lib_dir(Declared[i])
          /\ l3.i = i /\ l3.cmd = "pytests" /\ l3.env = env.environ


(* ------------------------------------------------------------------ *)
(* C13                                                                 *)
(* ------------------------------------------------------------------ *)
\* the build command ran for position i with the include and library
\* directories of that version
RebuiltAgainst(i) ==
    \E l \in env.launched :
        /\ l.i = i /\ l.cmd = "setup_build"
        /\ l.env["CPPFLAGS"] = <<"-", "I">> \o include_dir(builds[i])
        /\ l.env["LDFLAGS"] = <<"-", "L">> \o lib_dir(builds[i])
        /\ l.env["LD_RUN_PATH"] = lib_dir(builds[i])

\* the last three events are the rebuild, the import check and the version
\* check of position i, in that order
JustRebound(lg, i) ==
    /\ Len(lg) > 2
    /\ lg[Len(lg) - 2] = Event("rebuild", i)
    /\ lg[Len(lg) - 1] = Event("imports_ok", i)
    /\ lg[Len(lg)] = Event("pyssl_ok", i)

TestStagePcs == {"t_recompile", "t_setup", "t_pyssl"}

\* C13: the test command of a version runs only right after the rebuild
\* against that version's directories, the import check and the version
\* check of that same version succeeded, in that order and with nothing in
\* between, for a version that was installed and verified; when one of the
\* three fails the test command of that version is not run.
C13_TestPrecondition ==
    /\ \A k \in 1..Len(log) :
          log[k].ev = "test" =>
             /\ JustRebound(SubSeq(log, 1, k - 1), log[k].i)
             /\ Has("installed", log[k].i)
             /\ builds[log[k].i] = Declared[log[k].i]
             /\ RebuiltAgainst(log[k].i)
    /\ pc = "t_run" =>
          /\ JustRebound(log, idx)
          /\ RebuiltAgainst(idx)
          /\ Contains(linked, builds[idx].version)
    /\ (Failed /\ error.at \in TestStagePcs) => ~Has("test", error.i)

\* the test command of the second version is about to run, after the first
\* version was tested
C13_Witness ==
    /\ pc = "t_run" /\ idx = 2
    /\ Has("test_ok", 1)
    /\ Contains(linked, builds[2].version)


(* ------------------------------------------------------------------ *)
(* C14                                                                 *)
(* ------------------------------------------------------------------ *)
\* C14 as stated, for an install() that finds the archive at its cache
\* path: the archive is used as it is and not rewritten while it is
\* extracted.
C14_ExistingArchiveKept ==
    (probe.kind = "unpack" /\ probe.done) =>
        /\ isfile(disk, UnpackBuilder.src_file)
        /\ disk.files[UnpackBuilder.src_file]
              = probe.before.files[UnpackBuilder.src_file]


(* ------------------------------------------------------------------ *)
(* C15                                                                 *)
(* ------------------------------------------------------------------ *)
\* C15 as stated: whatever happens to a download, the archive cache path
\* is absent or holds a complete response body, and install() never skips
\* the download on a partially written archive.
C15_AtomicArchiveWrite ==
    /\ \A i \in 1..NumDeclared :
          isfile(disk, Declared[i].src_file) =>
             disk.files[Declared[i].src_file] \in ServerBodies(Declared[i])
    /\ (pc = "unpack" /\ ops.download = 0) =>
          disk.files[Declared[idx].src_file] # PartialArchive


(* ------------------------------------------------------------------ *)
(* C16                                                                 *)
(* ------------------------------------------------------------------ *)
\* C16 as stated: when the previous invocation ended in the extraction,
\* configure, make or make install of a version, install() of that version
\* in this invocation does not take the installation as present: it has
\* extracted, configured, compiled and installed again by the time it
\* checks the installed version.
C16_RerunRebuilds ==
    (pc = "verify" /\ prev # 0 /\ idx = prev) =>
        /\ ~ops.cached
        /\ ops.unpack = 1
        /\ ops.config = 1
        /\ ops.make = 1
        /\ ops.make_install = 1


(* ------------------------------------------------------------------ *)
(* C17                                                                 *)
(* ------------------------------------------------------------------ *)
\* two builders were constructed that differ in family or in version
TwoBuilders ==
    /\ probe.kind = "layout"
    /\ probe.done
    /\ (probe.c1 # probe.c2 \/ probe.v1 # probe.v2)

\* C17 as stated: two builders that differ in family or in version, with
\* or without a common destdir, have different install prefixes, archive
\* paths and build directories.
C17_LayoutByFamilyAndVersion ==
    TwoBuilders =>
        /\ probe.b1.install_dir # probe.b2.install_dir
        /\ probe.b1.src_file # probe.b2.src_file
        /\ probe.b1.build_dir # probe.b2.build_dir

\* C17, amended: archive paths and build directories of two such builders
\* always differ; the install prefixes differ when the versions differ or
\* no destdir is passed, and are the same directory, with the same
\* binary, when both families get the same destdir and version.
C17_LayoutByFamilyUnlessDestdir ==
    TwoBuilders =>
        /\ probe.b1.src_file # probe.b2.src_file
        /\ probe.b1.build_dir # probe.b2.build_dir
        /\ Normpath(probe.b1.src_file) # Normpath(probe.b2.src_file)
        /\ Normpath(probe.b1.build_dir) # Normpath(probe.b2.build_dir)
        /\ (probe.v1 # probe.v2 \/ probe.destdir = None) =>
              /\ probe.b1.install_dir # probe.b2.install_dir
              /\ openssl_cli(probe.b1) # openssl_cli(probe.b2)
        /\ probe.v1 # probe.v2 =>
              Normpath(probe.b1.install_dir) # Normpath(probe.b2.install_dir)
        /\ (probe.v1 = probe.v2 /\ probe.destdir # None) =>
              /\ probe.b1.install_dir = probe.b2.install_dir
              /\ openssl_cli(probe.b1) = openssl_cli(probe.b2)
              /\ has_openssl(probe.b1, disk) <=> has_openssl(probe.b2, disk)

\* one version of each family under the same destdir
C17_Witness ==
    /\ probe.kind = "layout"
    /\ probe.done
    /\ probe.c1 = BuildOpenSSL
    /\ probe.c2 = BuildLibreSSL
    /\ probe.destdir = OtherDestdir
    /\ probe.v1 = <<"1", ".">>
    /\ probe.v2 = <<"1", ".">>

====
